---- MODULE Spec2Model ----
(***************************************************************************)
(* md2project.py: extraction of (path, content) pairs from markdown text   *)
(* by three regular expressions, and their materialization as files and    *)
(* directories under an output directory.                                  *)
(*                                                                         *)
(* Text is a sequence of one-character strings.  The backquote character   *)
(* cannot be written in a TLA+ string, so BQ stands for it everywhere.     *)
(***************************************************************************)
EXTENDS Integers, Sequences, FiniteSets, TLC

VARIABLES
    pc,               \* position in the program
    md_files,         \* main: args.markdown_files, each [readable, text]
    dry_run,          \* main: args.dry_run
    verbose,          \* main: not args.quiet; create_project_structure: verbose
    next_doc,         \* analyze_markdown: index of the next md_file to read
    combined_content, \* analyze_markdown: combined_content
    files_dict,       \* extract_files_from_markdown / main: files_dict
    log,              \* history: the matches processed by lines 30-42, in order
    dirs,             \* filesystem: the directories (absolute physical paths)
    files,            \* filesystem: regular file path -> content
    readonly,         \* filesystem: regular files that cannot be opened for writing
    fs0,              \* history: the filesystem when the program started
    todo,             \* create_project_structure: entries of the for loop still to come
    dirs_created,     \* create_project_structure: dirs_created
    files_created,    \* create_project_structure: files_created
    events,           \* history: the mkdir and write calls of the current run
    errors,           \* history: the entries reported by line 72
    result,           \* what create_project_structure returned, or how it ended
    exit_code,        \* what main returned, <<>> as long as it has not
    run,              \* which of two successive create_project_structure calls
    first,            \* history: filesystem and result after the first call
    body_lines        \* the lines of a fenced body under the command-block filter

vars == <<pc, md_files, dry_run, verbose, next_doc, combined_content, files_dict,
          log, dirs, files, readonly, fs0, todo, dirs_created, files_created,
          events, errors, result, exit_code, run, first, body_lines>>

----------------------------------------------------------------------------
(* Text *)

Chars(s) == [i \in 1..Len(s) |-> SubSeq(s, i, i)]

BQ == "'"

Fence == <<BQ, BQ, BQ>>

Letters == {"a", "b", "c", "d", "e", "f", "g", "h", "i", "j", "k", "l", "m",
            "n", "o", "p", "q", "r", "s", "t", "u", "v", "w", "x", "y", "z"}

Digits == {"0", "1", "2", "3", "4", "5", "6", "7", "8", "9"}

\* \s of the re module, on the characters the documents use
IsSpace(c) == c \in {" ", "\n", "\t"}

\* \w of the re module, on the characters the documents use
IsWord(c) == c \in Letters \cup Digits \cup {"_"}

\* code points, for the order of sorted() on str
Ord(c) ==
    CASE c = "\t" -> 9  [] c = "\n" -> 10 [] c = " " -> 32 [] c = "!" -> 33
      [] c = "#" -> 35  [] c = "*" -> 42  [] c = "." -> 46 [] c = "/" -> 47
      [] c = ";" -> 59  [] c = "[" -> 91  [] c = "]" -> 93 [] c = "_" -> 95
      [] c = BQ -> 96
      [] c \in Digits -> 48 + (CHOOSE n \in 0..9 : Chars("0123456789")[n + 1] = c)
      [] c \in Letters ->
            97 + (CHOOSE n \in 0..25 : Chars("abcdefghijklmnopqrstuvwxyz")[n + 1] = c)

\* Each value that is used more than once is passed on as a parameter of the
\* operator that uses it, so that it is written, and evaluated, once.

Min(S) == CHOOSE x \in S : \A y \in S : x <= y

Max(S) == CHOOSE x \in S : \A y \in S : x >= y

MinOr(S, none) == IF S = {} THEN none ELSE Min(S)

MaxOr(S, none) == IF S = {} THEN none ELSE Max(S)

\* s[i:] starts with lit (positions count from 1)
At(s, i, lit) == i + Len(lit) - 1 <= Len(s) /\ SubSeq(s, i, i + Len(lit) - 1) = lit

StartsWith(s, lit) == At(s, 1, lit)

EndsWith(s, lit) == Len(lit) <= Len(s) /\ SubSeq(s, Len(s) - Len(lit) + 1, Len(s)) = lit

\* lit in s
Contains(s, lit) == \E i \in 1..Len(s) : At(s, i, lit)

\* the first position >= i where lit occurs, 0 when there is none
FindLit(s, i, lit) == MinOr({j \in i..Len(s) : At(s, j, lit)}, 0)

\* \s* from position i: the first position >= i that holds no whitespace
SkipSpace(s, i) == MinOr({j \in i..Len(s) : ~IsSpace(s[j])}, Len(s) + 1)

\* \w* from position i: the first position >= i that holds no word character
SkipWord(s, i) == MinOr({j \in i..Len(s) : ~IsWord(s[j])}, Len(s) + 1)

StripTo(s, keep) == IF keep = {} THEN <<>> ELSE SubSeq(s, Min(keep), Max(keep))

\* str.strip()
Strip(s) == StripTo(s, {j \in 1..Len(s) : ~IsSpace(s[j])})

\* s[:n]
Take(s, n) == SubSeq(s, 1, IF Len(s) < n THEN Len(s) ELSE n)

RECURSIVE SplitFrom(_, _, _)
SplitAt(s, i, sep, hit) ==
    IF hit = 0 THEN <<SubSeq(s, i, Len(s))>>
    ELSE <<SubSeq(s, i, hit - 1)>> \o SplitFrom(s, hit + 1, sep)

SplitFrom(s, i, sep) == SplitAt(s, i, sep, MinOr({j \in i..Len(s) : s[j] = sep}, 0))

\* str.split(sep) for a one-character sep
Split(s, sep) == SplitFrom(s, 1, sep)

----------------------------------------------------------------------------
(* extract_files_from_markdown: the three patterns *)

\* the alternation (ts|tsx|...|gitignore) of the three patterns
Extensions ==
    {Chars("ts"), Chars("tsx"), Chars("js"), Chars("jsx"), Chars("json"),
     Chars("css"), Chars("html"), Chars("md"), Chars("py"), Chars("go"),
     Chars("sh"), Chars("yaml"), Chars("yml"), Chars("toml"), Chars("txt"),
     Chars("env"), Chars("gitignore")}

\* g matches  X+\.(ext)  where X+ is at least one character
HasExt(g) == \E e \in Extensions : EndsWith(g, <<".">> \o e) /\ Len(g) > Len(e) + 1

\* g matches  \.(ext)  alone
IsBareExt(g) == \E e \in Extensions : g = <<".">> \o e

NoMatch == [end |-> 0, path |-> <<>>, body |-> <<>>]

\*  ```(?:\w+)?\s*\n(.*?)```  at position i, with re.DOTALL: the optional
\*  language tag (to j), whitespace (to k) up to its last newline (nl), then
\*  the body (from b) up to the next three backquotes (at e), whatever they are
FenceEnd(s, b, e) ==
    IF e = 0 THEN NoMatch ELSE [end |-> e + 3, path |-> <<>>, body |-> SubSeq(s, b, e - 1)]

FenceBody(s, nl) == IF nl = 0 THEN NoMatch ELSE FenceEnd(s, nl + 1, FindLit(s, nl + 1, Fence))

FenceSpace(s, j, k) == FenceBody(s, MaxOr({t \in j..(k - 1) : s[t] = "\n"}, 0))

FenceTag(s, j) == FenceSpace(s, j, SkipSpace(s, j))

FenceTail(s, i) == IF ~At(s, i, Fence) THEN NoMatch ELSE FenceTag(s, SkipWord(s, i + 3))

WithPath(m, g) == IF m = NoMatch THEN NoMatch ELSE [m EXCEPT !.path = g]

\* pattern1 at position i:
\*  \*\*([^\*]+\.(ext))\*\*\s*(?:\[.*?\])?\s*```(?:\w+)?\s*\n(.*?)```
\* the path g ends at the next star (j); after the blanks (to k) an
\* annotation in brackets may stand: its lazy .*? stops at the first "]"
\* after which the rest of the pattern matches
P1Fence(s, g, q) == WithPath(FenceTail(s, q), g)

P1Note(s, g, k) ==
    IF k <= Len(s) /\ s[k] = "["
    THEN P1Fence(s, g, MinOr({SkipSpace(s, t + 1) :
                                 t \in {u \in (k + 1)..Len(s) :
                                          /\ s[u] = "]"
                                          /\ FenceTail(s, SkipSpace(s, u + 1)) # NoMatch}},
                             Len(s) + 1))
    ELSE P1Fence(s, g, k)

P1Path(s, i, j) ==
    IF ~At(s, j, <<"*", "*">>) \/ ~HasExt(SubSeq(s, i + 2, j - 1)) THEN NoMatch
    ELSE P1Note(s, SubSeq(s, i + 2, j - 1), SkipSpace(s, j + 2))

Pattern1At(s, i) ==
    IF ~At(s, i, <<"*", "*">>) THEN NoMatch
    ELSE P1Path(s, i, MinOr({t \in (i + 2)..Len(s) : s[t] = "*"}, Len(s) + 1))

\* pattern2 at position i:
\*  ###?\s+([^\n]+\.(ext))\s*\n```(?:\w+)?\s*\n(.*?)```
\* the marks end at j, the blanks after them at a; the path g runs from a to
\* where the trailing whitespace of its line (ending at eol) starts (p); that
\* whitespace (to k) must end in a newline.  When g is a bare extension, \s+
\* gives one blank back to [^\n]+.
P2Fence(s, g, k) ==
    IF s[k - 1] # "\n" \/ g = <<>> THEN NoMatch ELSE WithPath(FenceTail(s, k), g)

P2Path(s, j, a, g) ==
    IF HasExt(g) THEN g
    ELSE IF IsBareExt(g) /\ a - j >= 2 /\ s[a - 1] # "\n" THEN <<s[a - 1]>> \o g
    ELSE <<>>

P2Trail(s, j, a, p) == P2Fence(s, P2Path(s, j, a, SubSeq(s, a, p - 1)), SkipSpace(s, p))

P2Line(s, j, a, eol) ==
    IF a = j \/ eol = 0 THEN NoMatch
    ELSE P2Trail(s, j, a, MaxOr({t \in a..(eol - 1) : ~IsSpace(s[t])}, a - 1) + 1)

P2Marks(s, j, a) == P2Line(s, j, a, MinOr({t \in a..Len(s) : s[t] = "\n"}, 0))

P2Blank(s, j) == P2Marks(s, j, SkipSpace(s, j))

Pattern2At(s, i) ==
    IF ~At(s, i, <<"#", "#">>) THEN NoMatch
    ELSE P2Blank(s, IF i + 2 <= Len(s) /\ s[i + 2] = "#" THEN i + 3 ELSE i + 2)

\* pattern3 at position i:
\*  `([^\`]+\.(ext))`\s*```(?:\w+)?\s*\n(.*?)```
P3Path(s, i, j) ==
    IF ~At(s, j, <<BQ>>) \/ ~HasExt(SubSeq(s, i + 1, j - 1)) THEN NoMatch
    ELSE WithPath(FenceTail(s, SkipSpace(s, j + 1)), SubSeq(s, i + 1, j - 1))

Pattern3At(s, i) ==
    IF ~At(s, i, <<BQ>>) THEN NoMatch
    ELSE P3Path(s, i, MinOr({t \in (i + 1)..Len(s) : s[t] = BQ}, Len(s) + 1))

PatternAt(pat, s, i) ==
    CASE pat = 1 -> Pattern1At(s, i)
      [] pat = 2 -> Pattern2At(s, i)
      [] pat = 3 -> Pattern3At(s, i)

\* re.findall(pattern, s, re.DOTALL | re.MULTILINE) from position i on: the
\* leftmost match (at t), then the search goes on where it ended
RECURSIVE FindAllFrom(_, _, _)
FindRest(pat, s, t, m) ==
    <<[pat |-> pat, pos |-> t, path |-> m.path, body |-> m.body]>>
        \o FindAllFrom(pat, s, m.end)

FindNext(pat, s, t) == IF t = 0 THEN <<>> ELSE FindRest(pat, s, t, PatternAt(pat, s, t))

FindAllFrom(pat, s, i) ==
    FindNext(pat, s, MinOr({t \in i..Len(s) : PatternAt(pat, s, t) # NoMatch}, 0))

FindAll(pat, s) == FindAllFrom(pat, s, 1)

----------------------------------------------------------------------------
(* extract_files_from_markdown: lines 30-44 *)

\* line 37: the shell-command indicators
Cmds == {Chars("npm install"), Chars("npm create"), Chars("cd "), Chars("#!/bin/bash")}

\* line 39: the prefixes of a line that looks like a shell command
ShellPrefixes == {Chars("#"), Chars("npm"), Chars("cd"), Chars("mkdir")}

\* line 37: content[:100]
CmdWindow == 100

\* line 39: len(lines) > 5, lines[:5]
CmdLines == 5

\* line 37: any(cmd in content[:100] for cmd in [...])
HasCmd(content) == \E c \in Cmds : Contains(Take(content, CmdWindow), c)

\* line 39: line.startswith(('#', 'npm', 'cd', 'mkdir'))
ShellLike(line) == \E p \in ShellPrefixes : StartsWith(line, p)

\* line 39: all(... for line in lines[:5])
AllShellLike(lines) == \A n \in 1..Len(lines) : ShellLike(lines[n])

\* line 39, mutated: a body of exactly five lines counts as long
IsFileBodyOffByOne(lines) == Len(lines) >= CmdLines /\ ~AllShellLike(Take(lines, CmdLines))

\* line 39: len(lines) > 5 and not all(...)
IsFileBody(lines) == Len(lines) > CmdLines /\ ~AllShellLike(Take(lines, CmdLines))

\* lines 37-42: whether files_dict[file_path] = content is executed
Stored(content) == IF HasCmd(content) THEN IsFileBody(Split(content, "\n")) ELSE TRUE

\* line 30: for pattern in [pattern1, pattern2, pattern3]
Patterns == <<1, 2, 3>>

\* lines 30-32: every match, pattern by pattern, each in the order found
RECURSIVE MatchesOf(_, _)
MatchesOf(pats, s) ==
    IF pats = <<>> THEN <<>> ELSE FindAll(Head(pats), s) \o MatchesOf(Tail(pats), s)

Matches(s) == MatchesOf(Patterns, s)

\* lines 33-34 and the test of lines 37-39, for one match
Judged(pat, pos, path, content) ==
    [pat |-> pat, pos |-> pos, path |-> path, content |-> content, kept |-> Stored(content)]

Processed(m) == Judged(m.pat, m.pos, Strip(m.path), Strip(m.body))

ProcessedEach(ms) == [n \in 1..Len(ms) |-> Processed(ms[n])]

ProcessedAll(s) == ProcessedEach(Matches(s))

EmptyDict == [k \in {} |-> <<>>]

\* d[k] = v
Put(d, k, v) == [x \in DOMAIN d \cup {k} |-> IF x = k THEN v ELSE d[x]]

\* lines 40 and 42, mutated: an entry already present is not overwritten
StoreFirstWins(d, e) ==
    IF e.kept /\ e.path \notin DOMAIN d THEN Put(d, e.path, e.content) ELSE d

\* lines 40 and 42: files_dict[file_path] = content
Store(d, e) == IF e.kept THEN Put(d, e.path, e.content) ELSE d

RECURSIVE StoreAll(_, _)
StoreAll(d, es) == IF es = <<>> THEN d ELSE StoreAll(Store(d, Head(es)), Tail(es))

\* extract_files_from_markdown(markdown_content)
ExtractFiles(s) == StoreAll(EmptyDict, ProcessedAll(s))

----------------------------------------------------------------------------
(* Paths: pathlib on the lexical side, the filesystem on the physical side *)

DotDot == Chars("..")

\* Path(str): empty and "." components are dropped, ".." components are kept
ParsePath(str) ==
    [abs   |-> StartsWith(str, <<"/">>),
     parts |-> SelectSeq(Split(str, "/"), LAMBDA c : c # <<>> /\ c # <<".">>)]

\* line 56: base_path / file_path (an absolute right operand replaces the left)
JoinPath(base, rel) ==
    IF rel.abs THEN rel ELSE [abs |-> base.abs, parts |-> base.parts \o rel.parts]

\* line 58: full_path.parent
ParentPath(p) ==
    IF p.parts = <<>> THEN p ELSE [p EXCEPT !.parts = SubSeq(p.parts, 1, Len(p.parts) - 1)]

\* line 63: parent_dir.relative_to(base_path) does not raise ValueError
RelativeOk(p, base) ==
    /\ p.abs = base.abs
    /\ Len(base.parts) <= Len(p.parts)
    /\ SubSeq(p.parts, 1, Len(base.parts)) = base.parts

\* the working directory of the process, and args.output / base_dir
Cwd == <<Chars("w")>>

BaseDir == Chars("out")

\* line 49: base_path = Path(base_dir)
BasePath == ParsePath(BaseDir)

StartDir(p) == IF p.abs THEN <<>> ELSE Cwd

UpDir(cur) == IF cur = <<>> THEN cur ELSE SubSeq(cur, 1, Len(cur) - 1)

StepDir(cur, c) == IF c = DotDot THEN UpDir(cur) ELSE Append(cur, c)

\* Path.mkdir(parents=True, exist_ok=True) from directory cur: an existing
\* directory is entered, a missing one is made, a regular file in the way
\* raises (FileExistsError or NotADirectoryError) after what was made so far
RECURSIVE MkdirWalk(_, _, _, _)
MkdirStep(nxt, rest, D, F) ==
    IF nxt \in D THEN MkdirWalk(nxt, rest, D, F)
    ELSE IF nxt \in DOMAIN F THEN [ok |-> FALSE, dirs |-> D]
    ELSE MkdirWalk(nxt, rest, D \cup {nxt}, F)

MkdirWalk(cur, parts, D, F) ==
    IF parts = <<>> THEN [ok |-> TRUE, dirs |-> D]
    ELSE MkdirStep(StepDir(cur, Head(parts)), Tail(parts), D, F)

MkdirParents(p, D, F) == MkdirWalk(StartDir(p), p.parts, D, F)

\* the directory a chain of components leads to; when a component is missing
\* or is not a directory, a chain with an empty component, which no path has
NoDir == <<<<>>>>

RECURSIVE ResolveDir(_, _, _)
ResolveStep(nxt, rest, D) == IF nxt \in D THEN ResolveDir(nxt, rest, D) ELSE NoDir

ResolveDir(cur, parts, D) ==
    IF parts = <<>> THEN cur ELSE ResolveStep(StepDir(cur, Head(parts)), Tail(parts), D)

TargetIn(dir, name) == IF dir = NoDir THEN NoDir ELSE StepDir(dir, name)

\* where the file of path p is, NoDir when its directory cannot be reached
Target(p, D) ==
    TargetIn(ResolveDir(StartDir(p), ParentPath(p).parts, D), p.parts[Len(p.parts)])

\* open(..., 'w') succeeds on t: it is reachable, no directory, and writable
Writable(t, D, RO) == t # NoDir /\ t \notin D /\ t \notin RO

\* lines 66-67: open(full_path, 'w') and f.write(content) succeed
CanWrite(p, D, RO) == Writable(Target(p, D), D, RO)

\* the output directory, and whether a physical path is it or lies in it
RootDir == Cwd \o BasePath.parts

IsUnder(q, root) == Len(root) <= Len(q) /\ SubSeq(q, 1, Len(root)) = root

----------------------------------------------------------------------------
(* sorted(files_dict.items()) *)

RECURSIVE StrLess(_, _)
StrLess(a, b) ==
    IF a = <<>> THEN b # <<>>
    ELSE IF b = <<>> THEN FALSE
    ELSE IF Head(a) = Head(b) THEN StrLess(Tail(a), Tail(b))
    ELSE Ord(Head(a)) < Ord(Head(b))

RECURSIVE SortedKeys(_)
SortedFrom(K, k) == <<k>> \o SortedKeys(K \ {k})

SortedKeys(K) ==
    IF K = {} THEN <<>>
    ELSE SortedFrom(K, CHOOSE x \in K : \A y \in K \ {x} : StrLess(x, y))

----------------------------------------------------------------------------
(* create_project_structure(files_dict, base_dir, verbose) *)

NoResult == [kind |-> "none", dirs |-> 0, files |-> 0]

Raised(kind) == [kind |-> kind, dirs |-> 0, files |-> 0]

MkdirEvent(p) == [op |-> "mkdir", path |-> p, key |-> <<>>]

WriteEvent(p, k) == [op |-> "write", path |-> p, key |-> k]

\* line 56
FullPath(key) == JoinPath(BasePath, ParsePath(key))

\* line 59, mutated: the set of directories already made is not consulted
NeedsMkdirAlways(parent, created) == parent # BasePath

\* line 59: parent_dir != base_path and str(parent_dir) not in dirs_created
NeedsMkdir(parent, created) == parent # BasePath /\ parent \notin created

\* line 60, mutated: exist_ok is left out, a directory that exists raises
MakeParentNoExistOk(parent, D, F) ==
    IF ResolveDir(StartDir(parent), parent.parts, D) # NoDir
    THEN [ok |-> FALSE, dirs |-> D]
    ELSE MkdirParents(parent, D, F)

\* line 60: parent_dir.mkdir(parents=True, exist_ok=True)
MakeParent(parent, D, F) == MkdirParents(parent, D, F)

\* lines 56-60 for the entry the for loop of line 55 is at: its key, its
\* full path, the parent of that, whether the parent is to be made, and the
\* outcome of making it
EntryMade(key, full, parent, need) ==
    [key |-> key, full |-> full, parent |-> parent, need |-> need,
     made |-> IF need THEN MakeParent(parent, dirs, files) ELSE [ok |-> TRUE, dirs |-> dirs]]

EntryNeed(key, full, parent) == EntryMade(key, full, parent, NeedsMkdir(parent, dirs_created))

EntryFull(key, full) == EntryNeed(key, full, ParentPath(full))

Entry == EntryFull(Head(todo), FullPath(Head(todo)))

\* line 63 raises ValueError
PrintRaises(e) == e.need /\ verbose /\ ~RelativeOk(e.parent, BasePath)

\* lines 49-53: the output directory and the empty records
CpsSetup ==
    /\ pc = "cps_start"
    /\ \E mk \in {MkdirParents(BasePath, dirs, files)} :
          /\ dirs' = mk.dirs
          /\ pc' = IF mk.ok THEN "cps_loop" ELSE "raised"
          /\ result' = IF mk.ok THEN NoResult ELSE Raised("root_error")
    /\ dirs_created' = {}
    /\ files_created' = <<>>
    /\ events' = <<>>
    /\ errors' = <<>>
    /\ todo' = SortedKeys(DOMAIN files_dict)
    /\ UNCHANGED <<md_files, dry_run, verbose, next_doc, combined_content, files_dict,
                   log, files, readonly, fs0, exit_code, run, first, body_lines>>

\* line 60 raises: nothing catches it, the call ends
EntryMkdirRaises ==
    /\ pc = "cps_loop" /\ todo # <<>>
    /\ \E e \in {Entry} :
          /\ ~e.made.ok
          /\ dirs' = e.made.dirs
    /\ pc' = "raised"
    /\ result' = Raised("entry_error")
    /\ UNCHANGED <<md_files, dry_run, verbose, next_doc, combined_content, files_dict,
                   log, files, readonly, fs0, todo, dirs_created, files_created,
                   events, errors, exit_code, run, first, body_lines>>

\* lines 60-63: the directory is made and recorded, then line 63 raises
EntryPrintRaises ==
    /\ pc = "cps_loop" /\ todo # <<>>
    /\ \E e \in {Entry} :
          /\ e.made.ok /\ PrintRaises(e)
          /\ dirs' = e.made.dirs
          /\ dirs_created' = dirs_created \cup {e.parent}
          /\ events' = Append(events, MkdirEvent(e.parent))
    /\ pc' = "raised"
    /\ result' = Raised("entry_error")
    /\ UNCHANGED <<md_files, dry_run, verbose, next_doc, combined_content, files_dict,
                   log, files, readonly, fs0, todo, files_created, errors,
                   exit_code, run, first, body_lines>>

\* lines 56-70: the file is written
EntryWritten ==
    /\ pc = "cps_loop" /\ todo # <<>>
    /\ \E e \in {Entry} :
          /\ e.made.ok /\ ~PrintRaises(e)
          /\ CanWrite(e.full, e.made.dirs, readonly)
          /\ dirs' = e.made.dirs
          /\ dirs_created' = IF e.need THEN dirs_created \cup {e.parent} ELSE dirs_created
          /\ files' = Put(files, Target(e.full, e.made.dirs), files_dict[e.key])
          /\ files_created' = Append(files_created, e.key)
          /\ events' = (IF e.need THEN Append(events, MkdirEvent(e.parent)) ELSE events)
                          \o <<WriteEvent(e.full, e.key)>>
    /\ todo' = Tail(todo)
    /\ UNCHANGED <<pc, md_files, dry_run, verbose, next_doc, combined_content,
                   files_dict, log, readonly, fs0, errors, result, exit_code, run,
                   first, body_lines>>

\* lines 56-63 and 71-72: open or write raises, the error is printed
EntryWriteFails ==
    /\ pc = "cps_loop" /\ todo # <<>>
    /\ \E e \in {Entry} :
          /\ e.made.ok /\ ~PrintRaises(e)
          /\ ~CanWrite(e.full, e.made.dirs, readonly)
          /\ dirs' = e.made.dirs
          /\ dirs_created' = IF e.need THEN dirs_created \cup {e.parent} ELSE dirs_created
          /\ events' = IF e.need THEN Append(events, MkdirEvent(e.parent)) ELSE events
          /\ errors' = Append(errors, e.key)
    /\ todo' = Tail(todo)
    /\ UNCHANGED <<pc, md_files, dry_run, verbose, next_doc, combined_content,
                   files_dict, log, files, readonly, fs0, files_created, result,
                   exit_code, run, first, body_lines>>

\* line 74
CpsReturn ==
    /\ pc = "cps_loop" /\ todo = <<>>
    /\ result' = [kind |-> "returned", dirs |-> Cardinality(dirs_created),
                  files |-> Len(files_created)]
    /\ pc' = "cps_done"
    /\ UNCHANGED <<md_files, dry_run, verbose, next_doc, combined_content, files_dict,
                   log, dirs, files, readonly, fs0, todo, dirs_created, files_created,
                   events, errors, exit_code, run, first, body_lines>>

CreateProjectStructure ==
    \/ CpsSetup
    \/ EntryMkdirRaises
    \/ EntryPrintRaises
    \/ EntryWritten
    \/ EntryWriteFails
    \/ CpsReturn

\* the same call once more, on what the first call left
SecondCall ==
    /\ pc \in {"cps_done", "raised"} /\ run = 1
    /\ first' = [dirs |-> dirs, files |-> files, result |-> result]
    /\ run' = 2
    /\ pc' = "cps_start"
    /\ UNCHANGED <<md_files, dry_run, verbose, next_doc, combined_content, files_dict,
                   log, dirs, files, readonly, fs0, todo, dirs_created, files_created,
                   events, errors, result, exit_code, body_lines>>

----------------------------------------------------------------------------
(* analyze_markdown(markdown_files) and main() *)

\* lines 82-88: combined_content after one md_file
Combined(content, doc) ==
    IF doc.readable THEN content \o Chars("\n\n") \o doc.text ELSE content

\* line 141, mutated: the flag is not looked at
DryRunIgnored == FALSE

\* line 141: args.dry_run
DryRunRequested == dry_run

\* lines 81-88: one md_file is read, or its error is printed
ReadDoc ==
    /\ pc = "read" /\ next_doc <= Len(md_files)
    /\ combined_content' = Combined(combined_content, md_files[next_doc])
    /\ next_doc' = next_doc + 1
    /\ UNCHANGED <<pc, md_files, dry_run, verbose, files_dict, log, dirs, files,
                   readonly, fs0, todo, dirs_created, files_created, events, errors,
                   result, exit_code, run, first, body_lines>>

\* lines 90-91 and 125
Analyze ==
    /\ pc = "read" /\ next_doc > Len(md_files)
    /\ log' = ProcessedAll(combined_content)
    /\ files_dict' = StoreAll(EmptyDict, log')
    /\ pc' = "analyzed"
    /\ UNCHANGED <<md_files, dry_run, verbose, next_doc, combined_content, dirs, files,
                   readonly, fs0, todo, dirs_created, files_created, events, errors,
                   result, exit_code, run, first, body_lines>>

\* lines 127-129
ReturnNoFiles ==
    /\ pc = "analyzed" /\ files_dict = EmptyDict
    /\ exit_code' = <<1>>
    /\ pc' = "exit"
    /\ UNCHANGED <<md_files, dry_run, verbose, next_doc, combined_content, files_dict,
                   log, dirs, files, readonly, fs0, todo, dirs_created, files_created,
                   events, errors, result, run, first, body_lines>>

\* lines 141-143
ReturnDryRun ==
    /\ pc = "analyzed" /\ files_dict # EmptyDict /\ DryRunRequested
    /\ exit_code' = <<0>>
    /\ pc' = "exit"
    /\ UNCHANGED <<md_files, dry_run, verbose, next_doc, combined_content, files_dict,
                   log, dirs, files, readonly, fs0, todo, dirs_created, files_created,
                   events, errors, result, run, first, body_lines>>

\* lines 145-152: the call of create_project_structure
CallCreate ==
    /\ pc = "analyzed" /\ files_dict # EmptyDict /\ ~DryRunRequested
    /\ pc' = "cps_start"
    /\ UNCHANGED <<md_files, dry_run, verbose, next_doc, combined_content, files_dict,
                   log, dirs, files, readonly, fs0, todo, dirs_created, files_created,
                   events, errors, result, exit_code, run, first, body_lines>>

\* lines 154-162
ReturnCreated ==
    /\ pc = "cps_done"
    /\ exit_code' = <<0>>
    /\ pc' = "exit"
    /\ UNCHANGED <<md_files, dry_run, verbose, next_doc, combined_content, files_dict,
                   log, dirs, files, readonly, fs0, todo, dirs_created, files_created,
                   events, errors, result, run, first, body_lines>>

----------------------------------------------------------------------------
(* Inputs: documents, fenced bodies, mappings, filesystems *)

MaxDocs == 2

MaxSegs == 3

MaxBodyLines == 8

MaxEntries == 3

\* the three kinds of filename marker, each on a line of its own
Bold(path) == Chars("**") \o path \o Chars("**\n")

Heading(path) == Chars("## ") \o path \o Chars("\n")

Tick(path) == <<BQ>> \o path \o <<BQ>> \o Chars("\n")

\* a marker, an opening fence with a language tag (or none), a body, a closing fence
Block(marker, tag, body) ==
    marker \o Fence \o tag \o Chars("\n") \o body \o Chars("\n") \o Fence \o Chars("\n")

\* the same without the closing fence
OpenBlock(marker, tag, body) == marker \o Fence \o tag \o Chars("\n") \o body \o Chars("\n")

SegBold == Block(Bold(Chars("a.py")), <<>>, Chars("x"))

SegHeading == Block(Heading(Chars("a.py")), Chars("py"), Chars("y"))

SegTick == Block(Tick(Chars("a.py")), <<>>, Chars("z"))

SegHeadingCmd == Block(Heading(Chars("a.py")), Chars("sh"), Chars("cd d"))

SegBoldNote ==
    Block(Chars("**b.py** [new]\n"), Chars("py"), Chars("v"))

SegAbs == Block(Bold(Chars("/t/f.py")), <<>>, Chars("x"))

SegOpen == OpenBlock(Bold(Chars("u.py")), <<>>, Chars("w"))

SegText == Chars("notes\n")

Segments ==
    {SegBold, SegHeading, SegTick, SegHeadingCmd, SegBoldNote, SegAbs, SegOpen, SegText}

RECURSIVE SegDocs(_)
SegDocs(n) ==
    IF n = 0 THEN {<<>>}
    ELSE SegDocs(n - 1) \cup {d \o g : d \in SegDocs(n - 1), g \in Segments}

\* the documents given to main
DocPlain == SegText

DocApp == SegBold

DocTree ==
    Block(Bold(Chars("d/a.py")), <<>>, Chars("x"))
        \o Block(Heading(Chars("d/b.py")), Chars("py"), Chars("y"))

DocClash ==
    Block(Bold(Chars("x.py")), <<>>, Chars("x"))
        \o Block(Bold(Chars("x.py/y.py")), <<>>, Chars("y"))
        \o Block(Bold(Chars("z.py")), <<>>, Chars("z"))

DocEscape == Block(Bold(Chars("../e.py")), <<>>, Chars("x"))

DocAbs == SegAbs

DocOpen == SegOpen

DocTexts == {DocPlain, DocApp, DocTree, DocClash, DocEscape, DocAbs, DocOpen}

MdFiles ==
    {[readable |-> TRUE, text |-> t] : t \in DocTexts}
        \cup {[readable |-> FALSE, text |-> DocApp]}

ArgLists == UNION {[1..n -> MdFiles] : n \in 1..MaxDocs}

\* the lines a fenced body is made of: the first CmdLines lines vary, the
\* lines after them are all the same
Pad == [n \in 1..95 |-> "x"]

BodyLines == {Chars("#!/bin/bash"), Chars("npm install"), Chars("echo hi"), Pad, <<>>}

TailLines == {Chars("echo hi")}

RECURSIVE BodiesOfLen(_)
BodiesOfLen(n) ==
    IF n = 0 THEN {<<>>}
    ELSE {Append(b, l) : b \in BodiesOfLen(n - 1),
                         l \in (IF n <= CmdLines THEN BodyLines ELSE TailLines)}

Bodies == UNION {BodiesOfLen(n) : n \in 1..MaxBodyLines}

RECURSIVE JoinLines(_)
JoinLines(ls) ==
    IF ls = <<>> THEN <<>>
    ELSE IF Len(ls) = 1 THEN ls[1]
    ELSE ls[1] \o Chars("\n") \o JoinLines(Tail(ls))

BodyPath == Chars("a.py")

BodyDoc(ls) == Block(Bold(BodyPath), <<>>, JoinLines(ls))

\* the mappings given to create_project_structure
Keys ==
    {Chars("a.py"), Chars("./a.py"), Chars("a.py/c.py"), Chars("./a.py/g.py"),
     Chars("d/a.py"), Chars("d/b.py"), Chars("d/../d/c.py"), Chars("../e.py"),
     Chars("/t/f.py")}

Contents == {Chars("x"), Chars("y")}

Dicts ==
    UNION {[K -> Contents] : K \in {S \in SUBSET Keys : Cardinality(S) <= MaxEntries}}

\* the filesystem before the program runs
Old == Chars("old")

FsFresh == [dirs |-> {<<>>, Cwd}, files |-> EmptyDict, readonly |-> {}]

FsDirInWay ==
    [dirs |-> {<<>>, Cwd, RootDir, Append(RootDir, Chars("a.py"))},
     files |-> EmptyDict, readonly |-> {}]

FsOldFiles ==
    [dirs |-> {<<>>, Cwd, RootDir, Append(RootDir, Chars("d"))},
     files |-> (Append(RootDir, Chars("a.py")) :> Old)
                  @@ (RootDir \o <<Chars("d"), Chars("b.py")>> :> Old),
     readonly |-> {RootDir \o <<Chars("d"), Chars("b.py")>>}]

FsRootIsFile == [dirs |-> {<<>>, Cwd}, files |-> (RootDir :> Old), readonly |-> {}]

FsStates == {FsFresh, FsDirInWay, FsOldFiles, FsRootIsFile}

----------------------------------------------------------------------------
(* Specifications *)

InitFs ==
    /\ \E fs \in FsStates :
          /\ dirs = fs.dirs
          /\ files = fs.files
          /\ readonly = fs.readonly
          /\ fs0 = [dirs |-> fs.dirs, files |-> fs.files]

InitLocals ==
    /\ log = <<>>
    /\ todo = <<>>
    /\ dirs_created = {}
    /\ files_created = <<>>
    /\ events = <<>>
    /\ errors = <<>>
    /\ result = NoResult
    /\ exit_code = <<>>
    /\ run = 1
    /\ first = [dirs |-> {}, files |-> EmptyDict, result |-> NoResult]

\* main(): the arguments are parsed, the filesystem is as found
Init ==
    /\ pc = "read"
    /\ md_files \in ArgLists
    /\ dry_run \in BOOLEAN
    /\ verbose \in BOOLEAN
    /\ next_doc = 1
    /\ combined_content = <<>>
    /\ files_dict = EmptyDict
    /\ body_lines = <<>>
    /\ InitFs
    /\ InitLocals

Next ==
    \/ ReadDoc
    \/ Analyze
    \/ ReturnNoFiles
    \/ ReturnDryRun
    \/ CallCreate
    \/ CreateProjectStructure
    \/ ReturnCreated

Spec == Init /\ [][Next]_vars

\* extract_files_from_markdown on documents made of up to MaxSegs segments
InitExtract ==
    /\ pc = "read"
    /\ md_files = <<>>
    /\ dry_run = TRUE
    /\ verbose = TRUE
    /\ next_doc = 1
    /\ combined_content \in SegDocs(MaxSegs)
    /\ files_dict = EmptyDict
    /\ body_lines = <<>>
    /\ dirs = FsFresh.dirs /\ files = FsFresh.files /\ readonly = FsFresh.readonly
    /\ fs0 = [dirs |-> FsFresh.dirs, files |-> FsFresh.files]
    /\ InitLocals

NextExtract == Analyze

SpecExtract == InitExtract /\ [][NextExtract]_vars

\* extract_files_from_markdown on one block whose body has up to MaxBodyLines lines
InitFilter ==
    /\ pc = "read"
    /\ md_files = <<>>
    /\ dry_run = TRUE
    /\ verbose = TRUE
    /\ next_doc = 1
    /\ body_lines \in Bodies
    /\ combined_content = BodyDoc(body_lines)
    /\ files_dict = EmptyDict
    /\ dirs = FsFresh.dirs /\ files = FsFresh.files /\ readonly = FsFresh.readonly
    /\ fs0 = [dirs |-> FsFresh.dirs, files |-> FsFresh.files]
    /\ InitLocals

NextFilter == Analyze

SpecFilter == InitFilter /\ [][NextFilter]_vars

\* create_project_structure called twice on a mapping of up to MaxEntries entries
InitMaterialize ==
    /\ pc = "cps_start"
    /\ md_files = <<>>
    /\ dry_run = FALSE
    /\ verbose \in BOOLEAN
    /\ next_doc = 1
    /\ combined_content = <<>>
    /\ files_dict \in Dicts
    /\ body_lines = <<>>
    /\ InitFs
    /\ InitLocals

NextMaterialize ==
    \/ CreateProjectStructure
    \/ SecondCall

SpecMaterialize == InitMaterialize /\ [][NextMaterialize]_vars

----------------------------------------------------------------------------
(* Properties *)

\* C1 (as stated): in create_project_structure a failure while materializing
\* one entry never aborts the run.  Once the output directory stands the call
\* does not end by raising; when it returns, every entry was attempted, the
\* returned file count is the number of entries written, and no failed entry
\* is among them.
C1_EntryFailureNeverAborts ==
    /\ pc = "raised" => result = Raised("root_error")
    /\ pc = "cps_done" =>
          /\ Len(files_created) + Len(errors) = Cardinality(DOMAIN files_dict)
          /\ result.files = Len(files_created)
          /\ \A m \in 1..Len(files_created) :
                \A n \in 1..Len(errors) : files_created[m] # errors[n]

\* the places of the filesystem a write of the current call went to
WrittenTargets ==
    {Target(events[n].path, dirs) : n \in {m \in 1..Len(events) : events[m].op = "write"}}

\* C2 (as stated): every directory created and every file written by
\* create_project_structure, for a mapping that extract_files_from_markdown
\* returned, is the output directory or lies under it.
C2_AllUnderRoot ==
    /\ \A q \in dirs \ fs0.dirs : IsUnder(q, RootDir)
    /\ \A q \in WrittenTargets : IsUnder(q, RootDir)
    /\ \A q \in DOMAIN files :
          (q \notin DOMAIN fs0.files \/ files[q] # fs0.files[q]) => IsUnder(q, RootDir)

\* C3 (as stated): every key of the mapping extract_files_from_markdown
\* returns is a non-empty path that does not start with a path separator.
C3_KeysRelativeNonEmpty == \A k \in DOMAIN files_dict : k # <<>> /\ k[1] # "/"

\* the matches processed with the same path as the n-th
SamePath(n) == {m \in 1..Len(log) : log[m].path = log[n].path}

\* the matches of path k that the command-block filter keeps
KeptFor(k) == {n \in 1..Len(log) : log[n].kept /\ log[n].path = k}

\* the matches are processed strategy by strategy (emphasized filename, then
\* heading, then inline code span), each strategy's in document order
ProcessedInOrder ==
    \A m, n \in 1..Len(log) :
        m < n => \/ log[m].pat < log[n].pat
                 \/ log[m].pat = log[n].pat /\ log[m].pos < log[n].pos

\* C4 (as stated): when several matches produce the same path, the content
\* stored for the path is the body of the match processed last, in the order
\* emphasized filenames, headings, inline code spans, each in document order.
C4_LastMatchWins ==
    /\ ProcessedInOrder
    /\ \A n \in 1..Len(log) :
          (Cardinality(SamePath(n)) > 1 /\ n = Max(SamePath(n)))
              => /\ log[n].path \in DOMAIN files_dict
                 /\ files_dict[log[n].path] = log[n].content

\* C4 (amended): the mapping holds exactly the paths of the matches the
\* command-block filter keeps, and the content stored for a path is the body
\* of the last processed match of that path that the filter keeps, in the
\* order emphasized filenames, headings, inline code spans, each in document
\* order.
C4_LastKeptMatchWins ==
    /\ ProcessedInOrder
    /\ DOMAIN files_dict = {log[n].path : n \in {m \in 1..Len(log) : log[m].kept}}
    /\ \A k \in DOMAIN files_dict : files_dict[k] = log[Max(KeptFor(k))].content

\* C4 (witness): a heading and, after it in the document, an emphasized
\* filename give the same path with different bodies, both kept; the
\* heading's match is processed later and its body is the one stored.
C4_HeadingOverwritesEmphasized ==
    \E m, n \in 1..Len(log) :
        /\ m < n /\ log[m].pat = 1 /\ log[n].pat = 2
        /\ log[m].pos > log[n].pos
        /\ log[m].path = log[n].path /\ log[m].kept /\ log[n].kept
        /\ log[m].content # log[n].content
        /\ files_dict[log[n].path] = log[n].content

\* a shell-command indicator occurs in the first CmdWindow characters of body
IndicatorInWindow(body) ==
    \E c \in Cmds : \E i \in 1..(CmdWindow - Len(c) + 1) : At(body, i, c)

FirstLinesAllShell(lines) ==
    \A n \in 1..CmdLines : n <= Len(lines) => ShellLike(lines[n])

DiscardedLines(body, lines) ==
    IndicatorInWindow(body) /\ (Len(lines) <= CmdLines \/ FirstLinesAllShell(lines))

Discarded(body) == DiscardedLines(body, Split(body, "\n"))

\* the one block of the document, of trimmed body `body`, was processed as C5 says
FilterAgrees(body) ==
    /\ Len(log) = 1 /\ log[1].path = BodyPath /\ log[1].content = body
    /\ BodyPath \notin DOMAIN files_dict <=> Discarded(body)
    /\ BodyPath \in DOMAIN files_dict => files_dict[BodyPath] = body

\* C5: the trimmed body of a match is discarded if and only if an indicator
\* occurs in its first 100 characters and it has 5 or fewer lines or its
\* first 5 lines all look like shell commands; every other body is stored.
\* An 8-line body starting with #!/bin/bash whose lines 2-5 are not all
\* shell-like is kept; a body with npm install in its first line and fewer
\* than 5 lines is discarded.
C5_CommandBlockFilter ==
    pc = "analyzed" =>
        /\ FilterAgrees(Strip(JoinLines(body_lines)))
        /\ ( /\ Len(body_lines) = 8
             /\ body_lines[1] = Chars("#!/bin/bash")
             /\ \E n \in 2..5 : ~ShellLike(body_lines[n]) )
              => BodyPath \in DOMAIN files_dict
        /\ (Contains(body_lines[1], Chars("npm install")) /\ Len(body_lines) < 5)
              => BodyPath \notin DOMAIN files_dict

\* C5 (witness): a body of more than 5 lines, none of them blank, with an
\* indicator in its first line and five shell-like first lines was discarded.
C5_LongScriptDiscarded ==
    /\ pc = "analyzed"
    /\ Len(body_lines) > CmdLines
    /\ \A n \in 1..CmdLines : ShellLike(body_lines[n])
    /\ files_dict = EmptyDict

\* C6 (as stated): a filename marker whose fenced block has no closing fence
\* of its own contributes no entry, whatever follows it in the document.  The
\* marker of u.py stands only before such a block.
C6_UnterminatedNeverMatches == Chars("u.py") \notin DOMAIN files_dict

\* C7: in a run with --dry-run create_project_structure is never called and
\* the filesystem stays as it was found: no directory is made, the output
\* directory included, and no file is written.
C7_DryRunLeavesFilesystem ==
    dry_run =>
        /\ pc \in {"read", "analyzed", "exit"}
        /\ dirs = fs0.dirs /\ files = fs0.files
        /\ events = <<>> /\ dirs_created = {} /\ files_created = <<>>
        /\ result = NoResult

\* C7 (witness): a dry run over a document whose path leaves the output
\* directory has ended with exit code 0.
C7_DryRunEnded ==
    /\ dry_run /\ pc = "exit" /\ exit_code = <<0>>
    /\ Chars("../e.py") \in DOMAIN files_dict

\* the texts of the readable documents among docs, in order, as line 85 joins them
RECURSIVE ReadableText(_)
ReadableText(docs) ==
    IF docs = <<>> THEN <<>>
    ELSE (IF Head(docs).readable THEN Chars("\n\n") \o Head(docs).text ELSE <<>>)
             \o ReadableText(Tail(docs))

\* the run is over, and not because the output directory could not be made
RunEnded == pc = "exit" \/ (pc = "raised" /\ result.kind = "entry_error")

\* C8 (as stated): an unreadable document is skipped and every later one is
\* still read; extraction runs on the readable documents in argument order;
\* the driver returns exit code 1 exactly when the mapping is empty, and 0
\* otherwise.
C8_SkipUnreadableExitCode ==
    /\ pc = "read" => combined_content = ReadableText(SubSeq(md_files, 1, next_doc - 1))
    /\ pc # "read" =>
          /\ combined_content = ReadableText(md_files)
          /\ files_dict = ExtractFiles(combined_content)
    /\ RunEnded =>
          /\ exit_code = <<1>> <=> files_dict = EmptyDict
          /\ exit_code = <<0>> <=> files_dict # EmptyDict

\* the creation records, by their place in the sequence of events
Mkdirs == {n \in 1..Len(events) : events[n].op = "mkdir"}

WritesTo(q) == {n \in 1..Len(files_created) : Target(FullPath(files_created[n]), dirs) = q}

\* C10: a second call of create_project_structure with the same mapping and
\* output directory ends as the first did, with the same counts, and leaves
\* the directories and file contents the first left; what the first call made
\* is no error for the second, and each file written holds exactly the
\* content of the entry last written to it.
C10_SecondRunSame ==
    /\ (run = 2 /\ pc \in {"cps_done", "raised"}) =>
          /\ result = first.result
          /\ dirs = first.dirs
          /\ files = first.files
    /\ \A q \in WrittenTargets : files[q] = files_dict[files_created[Max(WritesTo(q))]]

\* C10 (witness): the second call returned after writing at least two files
\* and making a directory, one of the files having been there with other
\* content before the first call.
C10_SecondRunReturned ==
    /\ run = 2 /\ pc = "cps_done"
    /\ result.files >= 2 /\ result.dirs >= 1
    /\ \E q \in WrittenTargets : q \in DOMAIN fs0.files /\ files[q] # fs0.files[q]

====
